---- MODULE Spec2Model ----
(***************************************************************************)
(* Model of social_security.py: the module-level state (EarningsRecord,    *)
(* Soft_Fail, XML_Statement_Error, Results), the statement loader, the     *)
(* benefit calculation and the S&P 500 comparison.                         *)
(*                                                                         *)
(* Number representation.  The program computes with Python floats; the    *)
(* model computes with integers in fixed units:                            *)
(*   earnings                  whole dollars                               *)
(*   wage index                cents                                       *)
(*   AWI factor                hundredths (FactorUnit = factor 1.0)        *)
(*   adjusted earnings, AIME   cents                                       *)
(*   monthly benefits          dimes (the program floors them to 0.10)     *)
(*   S&P annual change         hundredths of a percent                     *)
(*   OASDI tax rate            thousandths of a percent                    *)
(*   invested amounts          cents                                       *)
(* A division that the program does in floating point is a floor division  *)
(* in the unit of its result.  TLC's integers are 32 bits wide, so a       *)
(* product that would not fit is computed through MulDiv.                  *)
(***************************************************************************)
EXTENDS Integers, Sequences, FiniteSets, TLC

(***************************************************************************)
(* Arithmetic helpers                                                      *)
(***************************************************************************)
Min(S) == CHOOSE x \in S : \A y \in S : x <= y
Max(S) == CHOOSE x \in S : \A y \in S : x >= y

\* floor(a * b / d) for a >= 0, d > 0, without forming a * b
MulDiv(a, b, d) == (a \div d) * b + ((a % d) * b) \div d

\* Python round() of the exact quotient n / d (ties go to the even integer)
RoundDiv(n, d) ==
    LET q == n \div d
        r == n % d
    IN  IF 2 * r < d THEN q
        ELSE IF 2 * r > d THEN q + 1
        ELSE IF q % 2 = 0 THEN q ELSE q + 1

\* round(a * b / d) without forming a * b
RoundMulDiv(a, b, d) == (b \div d) * a + RoundDiv((b % d) * a, d)

\* f[lo] + ... + f[hi]
RECURSIVE SumRange(_, _, _)
SumRange(f, lo, hi) ==
    IF lo > hi THEN 0
    ELSE IF lo = hi THEN f[lo]
    ELSE LET mid == (lo + hi) \div 2
         IN  SumRange(f, lo, mid) + SumRange(f, mid + 1, hi)

\* sum(s)
SumSeq(s) == SumRange(s, 1, Len(s))

\* the last n elements of s: s[-n:]
LastN(s, n) == IF Len(s) <= n THEN s ELSE SubSeq(s, Len(s) - n + 1, Len(s))

\* sorted(s): ascending; element k of s goes to the place after the smaller
\* elements and the equal elements before it
Sorted(s) ==
    LET place == [k \in 1..Len(s) |->
                    1 + Cardinality({j \in 1..Len(s) :
                                        s[j] < s[k] \/ (s[j] = s[k] /\ j < k)})]
    IN  [r \in 1..Len(s) |-> s[CHOOSE k \in 1..Len(s) : place[k] = r]]

\* A loop "for item in items[lo..hi]: acc = Op(acc, item)".  The range is halved
\* and the first half is evaluated (by the test left = left) before the second
\* is entered, which keeps TLC's evaluation stack logarithmic in the length.
RECURSIVE FoldLeft(_, _, _, _, _)
FoldLeft(Op(_, _), acc, items, lo, hi) ==
    IF lo > hi THEN acc
    ELSE IF lo = hi THEN Op(acc, items[lo])
    ELSE LET mid == (lo + hi) \div 2
             left == FoldLeft(Op, acc, items, lo, mid)
         IN  IF left = left THEN FoldLeft(Op, left, items, mid + 1, hi) ELSE left

(***************************************************************************)
(* Reference tables                                                        *)
(***************************************************************************)
NAWI_FirstYear == 1951
NAWI_LastYear == 2021

\* National Average Wage Index, cents
NationalAverageWageIndexSeries ==
    LET t == <<
      279916,   297332,   313944,   315564,   330144,
      353236,   364172,   367380,   385580,   400712,
      408676,   429140,   439664,   457632,   465872,
      493836,   521344,   557176,   589376,   618624,
      649708,   713380,   758016,   803076,   863092,
      922648,   977944,  1055603,  1147946,  1251346,
     1377310,  1453134,  1523924,  1613507,  1682251,
     1732182,  1842651,  1933404,  2009955,  2102798,
     2181160,  2293542,  2313267,  2375353,  2470566,
     2591390,  2742600,  2886144,  3046984,  3215482,
     3292192,  3325209,  3406495,  3564855,  3695294,
     3865141,  4040548,  4133497,  4071161,  4167383,
     4297961,  4432167,  4488816,  4648152,  4809863,
     4864215,  5032189,  5214580,  5409999,  5562860,
     6057507
        >>
    IN  [y \in NAWI_FirstYear..NAWI_LastYear |-> t[y - NAWI_FirstYear + 1]]

SnP500_FirstYear == 1928
SnP500_LastYear == 2022

\* S&P 500 "Annual % Change" (column 5 of SnP500AnnualData), hundredths of a percent
SnP500AnnualData ==
    LET t == <<
      3788,  -1191,  -2848,  -4707,  -1515,   4659,   -594,   4137,   2792,  -3859,
      2521,   -545,  -1529,  -1786,   1243,   1945,   1380,   3072,  -1187,      0,
       -65,   1026,   2178,   1646,   1178,   -662,   4502,   2640,    262,  -1431,
      3806,    848,   -297,   2313,  -1181,   1889,   1297,    906,  -1309,   2009,
       766,  -1136,     10,   1079,   1563,  -1737,  -2972,   3155,   1915,  -1150,
       106,   1231,   2577,   -973,   1476,   1727,    140,   2633,   1462,    203,
      1240,   2725,   -656,   2631,    446,    706,   -154,   3411,   2026,   3101,
      2667,   1953,  -1014,  -1304,  -2337,   2638,    899,    300,   1362,    353,
     -3849,   2345,   1278,      0,   1341,   2960,   1139,    -73,    954,   1942,
      -624,   2888,   1626,   2689,  -1944
        >>
    IN  [y \in SnP500_FirstYear..SnP500_LastYear |-> t[y - SnP500_FirstYear + 1]]

\* OASDI tax rate changes <<year, rate>>, rate in thousandths of a percent
OASDITaxRateChanges == {
    <<1937, 1000>>,
    <<1950, 1500>>,
    <<1954, 2000>>,
    <<1957, 2250>>,
    <<1959, 2500>>,
    <<1960, 3000>>,
    <<1962, 3125>>,
    <<1963, 3625>>,
    <<1966, 3850>>,
    <<1967, 3900>>,
    <<1968, 3800>>,
    <<1969, 4200>>,
    <<1971, 4600>>,
    <<1973, 4850>>,
    <<1974, 4950>>,
    <<1978, 5050>>,
    <<1979, 5080>>,
    <<1981, 5350>>,
    <<1982, 5400>>,
    <<1984, 5700>>,
    <<1988, 6060>>,
    <<1990, 6200>>
    }

TaxChangeYears == {c[1] : c \in OASDITaxRateChanges}
TaxChange(y) == (CHOOSE c \in OASDITaxRateChanges : c[1] = y)[2]

\* the value of DefaultOASDITaxRate after the loop has handled year y
RECURSIVE RateAfter(_)
RateAfter(y) ==
    IF y < Min(TaxChangeYears) THEN 0
    ELSE IF y \in TaxChangeYears THEN TaxChange(y)
    ELSE RateAfter(y - 1)

OASDITaxRates == [y \in Min(TaxChangeYears)..Max(TaxChangeYears) |-> RateAfter(y)]

\* the module-level loop variable keeps the value of its last iteration
DefaultOASDITaxRate == RateAfter(Max(TaxChangeYears))

\* OASDITaxRates.get(year, DefaultOASDITaxRate)
TaxRateFor(year) ==
    IF year \in DOMAIN OASDITaxRates THEN OASDITaxRates[year] ELSE DefaultOASDITaxRate

(***************************************************************************)
(* Python dicts.  A dict is the sequence of its <<key, value>> items in     *)
(* insertion order; Results is a function on its keys.                     *)
(***************************************************************************)
Keys(d) == {d[k][1] : k \in 1..Len(d)}
Lookup(d, y) == d[CHOOSE k \in 1..Len(d) : d[k][1] = y][2]
Values(d) == [k \in 1..Len(d) |-> d[k][2]]

\* d[y] = a : an existing key keeps its position
DictSet(d, y, a) ==
    IF y \in Keys(d)
    THEN [k \in 1..Len(d) |-> IF d[k][1] = y THEN <<y, a>> ELSE d[k]]
    ELSE Append(d, <<y, a>>)

DictSetItem(d, item) == DictSet(d, item[1], item[2])

\* d.update(items)
DictUpdate(d, items) == FoldLeft(DictSetItem, d, items, 1, Len(items))

EmptyDict == [k \in {} |-> 0]

\* old.update(new) on functions
Update(old, new) ==
    [k \in DOMAIN old \cup DOMAIN new |-> IF k \in DOMAIN new THEN new[k] ELSE old[k]]

(***************************************************************************)
(* Inputs                                                                  *)
(***************************************************************************)
\* longest statement the model reads
MaxYears == 37
\* longest earnings record the caller edits entry by entry
MaxEdited == 2

\* the years and amounts the caller writes into EarningsRecord
EditYears == {1936, 2000, 2001, 2022}
EditAmounts == {0, 1000}

\* the <osss:Earnings> nodes of a statement: n years from first, stride apart
Statement(first, n, stride, base, step) ==
    [k \in 1..n |-> <<first + (k - 1) * stride, base + (k - 1) * step>>]

Reversed(s) == [k \in 1..Len(s) |-> s[Len(s) + 1 - k]]

Unreadable == [readable |-> FALSE, nodes |-> <<>>]
Readable(nodes) == [readable |-> TRUE, nodes |-> nodes]

\* statement files of the runs in which the caller edits the record
ShortStatements ==
    {Unreadable, Readable(Statement(2000, 2, 1, 1000, 1000))}

\* statement files of the runs that only load and calculate
LongStatements ==
    {Readable(Statement(f, n, 1, b, s)) :
        f \in {1950, 1985, 2021}, n \in {1, 2} \cup (35..MaxYears),
        b \in {0, 13380, 80652}, s \in {0, 1000}}
    \cup {Readable(Reversed(Statement(f, n, 1, 1000, 1000))) : f \in {2000, 2021}, n \in 2..3}
    \cup {Readable(Statement(f, n, 2, 1000, 0)) : f \in {2000, 2019}, n \in 2..3}
    \cup {Readable(<<>>), Readable(<<<<2000, 1000>>, <<2001, 0>>, <<2000, 2000>>>>), Unreadable}

(***************************************************************************)
(* State                                                                   *)
(***************************************************************************)
VARIABLES
    EarningsRecord,       \* the module-level dict; Results['EarningsRecord'] is this same object
    Soft_Fail,
    XML_Statement_Error,  \* "None" or the description string
    Results,              \* the module-level result dict (without its 'EarningsRecord' alias)
    AWI_Factors,          \* locals of the latest do_the_big_calculation_method call,
    AdjustedEarnings,     \*   as they were when it ended
    statement,            \* the file SOC_SEC_XML
    stderr,               \* what was printed to sys.stderr
    outcome               \* how the latest call ended

vars == <<EarningsRecord, Soft_Fail, XML_Statement_Error, Results, AWI_Factors,
          AdjustedEarnings, statement, stderr, outcome>>

NoEarningsMessage == "No Earnings Record and no XML statement!"
EmptySequenceMessage == "arg is an empty sequence"

Returned(call) == [call |-> call, raised |-> "None", message |-> "None"]
Raised(call, error, message) == [call |-> call, raised |-> error, message |-> message]

(***************************************************************************)
(* load_xml_statement                                                      *)
(***************************************************************************)
\* load_xml_statement with the placeholder inserted before Soft_Fail is tested
LoadXml_UpdateBeforeRaise(rec, soft, file) ==
    IF ~file.readable
    THEN IF rec = <<>>
         THEN [raised |-> ~soft, error |-> NoEarningsMessage,
               record |-> DictUpdate(rec, <<<<2022, 0>>>>),
               printed |-> IF soft THEN <<NoEarningsMessage>> ELSE <<>>]
         ELSE [raised |-> FALSE, error |-> "None", record |-> rec, printed |-> <<>>]
    ELSE [raised |-> FALSE, error |-> "None",
          record |-> DictUpdate(<<>>, file.nodes), printed |-> <<>>]

\* the effect of load_xml_statement() on a record rec
LoadXml(rec, soft, file) ==
    IF ~file.readable
    THEN IF rec = <<>>
         THEN IF ~soft
              THEN [raised |-> TRUE, error |-> NoEarningsMessage, record |-> rec,
                    printed |-> <<>>]
              ELSE [raised |-> FALSE, error |-> NoEarningsMessage,
                    record |-> DictUpdate(rec, <<<<2022, 0>>>>),
                    printed |-> <<NoEarningsMessage>>]
         ELSE [raised |-> FALSE, error |-> "None", record |-> rec, printed |-> <<>>]
    ELSE [raised |-> FALSE, error |-> "None",
          record |-> DictUpdate(<<>>, file.nodes), printed |-> <<>>]

(***************************************************************************)
(* do_the_big_calculation_method, after its load_xml_statement() call       *)
(***************************************************************************)
\* AWI factor 1.0
FactorUnit == 100

\* the number of adjusted years that count
TopYears == 35
\* the months of 35 years
AIMEMonths == 420
\* the 1977 wage index of the bend point formula, cents
BendBaseIndex == 977944

LatestIndex == NationalAverageWageIndexSeries[NAWI_LastYear]

\* the factor with the index difference taken the other way round
ComputeAWIFactors_Inverted(last) ==
    LET indexed == NAWI_FirstYear..(NAWI_LastYear - 1)
        padded == NAWI_LastYear..last
    IN  [i \in indexed \cup padded |->
            IF i \in padded THEN FactorUnit
            ELSE FactorUnit +
                 ((NationalAverageWageIndexSeries[i] - LatestIndex) * FactorUnit)
                    \div NationalAverageWageIndexSeries[i]]

\* the padding that repeats the factor of the first indexed year instead of 1.0
ComputeAWIFactors_PadFirst(last) ==
    LET indexed == NAWI_FirstYear..(NAWI_LastYear - 1)
        padded == NAWI_LastYear..last
        factor(i) == FactorUnit +
                     ((LatestIndex - NationalAverageWageIndexSeries[i]) * FactorUnit)
                        \div NationalAverageWageIndexSeries[i]
    IN  [i \in indexed \cup padded |->
            IF i \in padded THEN factor(NAWI_FirstYear) ELSE factor(i)]

\* the padding that repeats the factor of the last year of the indexing loop
ComputeAWIFactors_PadLastKnown(last) ==
    LET indexed == NAWI_FirstYear..(NAWI_LastYear - 1)
        padded == NAWI_LastYear..last
        factor(i) == FactorUnit +
                     ((LatestIndex - NationalAverageWageIndexSeries[i]) * FactorUnit)
                        \div NationalAverageWageIndexSeries[i]
    IN  [i \in indexed \cup padded |->
            IF i \in padded THEN factor(NAWI_LastYear - 1) ELSE factor(i)]

\* the two loops that fill AWI_Factors, for a record that ends in year last
ComputeAWIFactors(last) ==
    LET indexed == NAWI_FirstYear..(NAWI_LastYear - 1)
        Last_AWI_Year == IF indexed = {} THEN NAWI_FirstYear ELSE NAWI_LastYear - 1
        padded == (Last_AWI_Year + 1)..last
    IN  [i \in indexed \cup padded |->
            IF i \in padded THEN FactorUnit
            ELSE FactorUnit +
                 ((LatestIndex - NationalAverageWageIndexSeries[i]) * FactorUnit)
                    \div NationalAverageWageIndexSeries[i]]

\* the first year at which EarningsRecord[i] * AWI_Factors[i] raises KeyError, 0 if none does
KeyErrorYear(rec, factors) ==
    LET bad == {i \in Min(Keys(rec))..Max(Keys(rec)) :
                    i \notin Keys(rec) \/ i \notin DOMAIN factors}
    IN  IF bad = {} THEN 0 ELSE Min(bad)

\* the loop that fills AdjustedEarnings, up to the year that raises
ComputeAdjustedEarnings(rec, factors) ==
    LET stop == IF KeyErrorYear(rec, factors) = 0 THEN Max(Keys(rec))
                ELSE KeyErrorYear(rec, factors) - 1
    IN  [i \in Min(Keys(rec))..stop |-> Lookup(rec, i) * factors[i]]

\* AdjustedEarnings.values(): the loop inserts the years in ascending order
AdjustedValues(adjusted) ==
    IF DOMAIN adjusted = {} THEN <<>>
    ELSE [k \in 1..Cardinality(DOMAIN adjusted) |-> adjusted[Min(DOMAIN adjusted) + k - 1]]

\* the slice taken from the wrong end: sorted(...)[:35]
Top35Of_Smallest(adjusted) ==
    SubSeq(Sorted(AdjustedValues(adjusted)), 1,
           Min({TopYears, Len(AdjustedValues(adjusted))}))

\* no slice at all
Top35Of_All(adjusted) == Sorted(AdjustedValues(adjusted))

\* sorted(AdjustedEarnings.values())[-35:]
Top35Of(adjusted) == LastN(Sorted(AdjustedValues(adjusted)), TopYears)

\* list(str(k) for k, v in EarningsRecord.items() if not v)
MissingYears(rec) ==
    LET zero == SelectSeq(rec, LAMBDA item : item[2] = 0)
    IN  [k \in 1..Len(zero) |-> ToString(zero[k][1])]

\* AIME in cents from the top-35 sum in cents
AIMEOf(top35sum) == top35sum \div AIMEMonths

FirstBendPoint == RoundMulDiv(180, LatestIndex, BendBaseIndex)
SecondBendPoint == RoundMulDiv(1085, LatestIndex, BendBaseIndex)

\* the three branches of the benefit formula, in 1/10000 dollar, for AIME in cents
BelowFirstBend(aime) == 90 * aime
\* the middle branch without the subtraction of the first bend point
BetweenBends_WholeAIME(aime) == 9000 * FirstBendPoint + 32 * aime

BetweenBends(aime) == 9000 * FirstBendPoint + 32 * (aime - 100 * FirstBendPoint)
AboveSecondBend(aime) ==
    9000 * FirstBendPoint + 3200 * (SecondBendPoint - FirstBendPoint)
        + 15 * (aime - 100 * SecondBendPoint)

\* floor(x * 10.0) / 10.0 in dimes, for x in 1/10000 dollar
FloorToDime(x) == x \div 1000

\* the normal monthly benefit in dimes, for AIME in cents
NormalMonthlyBenefitOf(aime) ==
    FloorToDime(IF aime <= 100 * FirstBendPoint THEN BelowFirstBend(aime)
                ELSE IF aime > 100 * FirstBendPoint /\ aime <= 100 * SecondBendPoint
                     THEN BetweenBends(aime)
                     ELSE AboveSecondBend(aime))

\* floor(0.7 * NormalMonthlyBenefit * 10.0) / 10.0, dimes
ReducedMonthlyBenefitOf(normal) == (7 * normal) \div 10

\* The delayed benefits.  Benefit is counted in units of 12/15625 dime, in which
\* NormalMonthlyBenefit * 12 and three multiplications by 1.08 = 27/25 are exact.
DelayYears == 3
RECURSIVE IncreasedBenefitLoop(_, _)
IncreasedBenefitLoop(Benefit, yr) ==
    IF yr = DelayYears THEN <<>>
    ELSE LET grown == (Benefit \div 25) * 27
             MonthlyBenefit == grown \div 15625
         IN  <<MonthlyBenefit>> \o IncreasedBenefitLoop(grown, yr + 1)

\* the delayed benefits with each step grown from the floored benefit of the step before
IncreasedBenefitOf_Carried(normal) ==
    LET first == (normal * 27) \div 25
        second == (first * 27) \div 25
        third == (second * 27) \div 25
    IN  <<first, second, third>>

IncreasedBenefitOf(normal) == IncreasedBenefitLoop(normal * 15625, 0)

\* the body of do_the_big_calculation_method on the loaded record rec
BigCalculation(rec) ==
    IF rec = <<>>
    THEN [raised |-> "ValueError", factors |-> EmptyDict, adjusted |-> EmptyDict,
          results |-> EmptyDict]
    ELSE
    LET factors == ComputeAWIFactors(Max(Keys(rec)))
        adjusted == ComputeAdjustedEarnings(rec, factors)
        Top35AdjustedEarnings == Top35Of(adjusted)
        Top35YearsEarnings == SumSeq(Top35AdjustedEarnings)
        AIME == AIMEOf(Top35YearsEarnings)
        NormalMonthlyBenefit == NormalMonthlyBenefitOf(AIME)
    IN  IF KeyErrorYear(rec, factors) # 0
        THEN [raised |-> "KeyError", factors |-> factors, adjusted |-> adjusted,
              results |-> EmptyDict]
        ELSE [raised |-> "None", factors |-> factors, adjusted |-> adjusted,
              results |->
                [Top35AdjustedEarnings |-> Top35AdjustedEarnings,
                 MissingEarningYears |-> MissingYears(rec),
                 TotalActualEarnings |-> SumSeq(Values(rec)),
                 TotalAdjustedEarnings |-> SumSeq(AdjustedValues(adjusted)),
                 Top35YearsEarnings |-> Top35YearsEarnings,
                 Top35YearsMinimum |-> Top35AdjustedEarnings[1],
                 AverageIndexedMonthlyEarnings |-> AIME,
                 FirstBendPoint |-> FirstBendPoint,
                 SecondBendPoint |-> SecondBendPoint,
                 NormalBenefit |-> NormalMonthlyBenefit,
                 ReducedBenefit |-> ReducedMonthlyBenefitOf(NormalMonthlyBenefit),
                 IncreasedBenefit |-> IncreasedBenefitOf(NormalMonthlyBenefit)]]

(***************************************************************************)
(* snp500                                                                  *)
(***************************************************************************)
\* SnP500AnnualData.get(year, DefaultYear)[5]
AnnualChange(year) ==
    IF year \in DOMAIN SnP500AnnualData THEN SnP500AnnualData[year] ELSE 0

\* dollar * OASDITaxRates.get(year, DefaultOASDITaxRate) / 100, cents
TaxAmount(year, dollar) == (dollar * TaxRateFor(year)) \div 1000

\* snptotal *= (100 + change) / 100, cents
Grow(snptotal, change) == MulDiv(snptotal, 10000 + change, 10000)

\* one pass of the loop over Results['EarningsRecord'].items(), on
\* sums = <<snpinvested, snptotal>> in cents
InvestStep(sums, item) ==
    LET taxamount == TaxAmount(item[1], item[2])
    IN  <<sums[1] + taxamount, Grow(sums[2], AnnualChange(item[1])) + taxamount>>

\* the loop, from snptotal = 0 and snpinvested = 0
InvestLoop(items) == FoldLeft(InvestStep, <<0, 0>>, items, 1, Len(items))

\* fv(years, rate, val): the rate in hundredths of a percent, the values in dollars
\* (a record that spans many more years than it has entries gives rates of several
\* hundred percent, and the projections outgrow 32 bits in any finer unit)
RECURSIVE FutureValue(_, _, _)
FutureValue(years, rate, val) ==
    IF years = 0 THEN val ELSE FutureValue(years - 1, rate, Grow(val, rate))

\* [(p/100, round(p * total/100)) for p in range(3, 7)]: <<percent, dollars>>,
\* for a total whose unit is 1/unit dollar
Annuitized(total, unit) ==
    [k \in 1..4 |-> <<k + 2, RoundMulDiv(k + 2, total, 100 * unit)>>]

\* averages are exact fractions <<numerator, denominator>> of hundredths of a percent
FractionLE(a, b) == a[1] * b[2] <= b[1] * a[2]
RoundFraction(a) == RoundDiv(a[1], a[2])

\* the fields snp500 writes for a non-empty record rec
Snp500Fields(rec) ==
    LET lastsnp == Max(DOMAIN SnP500AnnualData)
        earnmax == Max(Keys(rec))
        earnmin == Min(Keys(rec))
        allavg == <<SumRange(SnP500AnnualData, SnP500_FirstYear, SnP500_LastYear),
                    Cardinality(DOMAIN SnP500AnnualData)>>
        \* the years y of SnP500AnnualData with earnmin < y <= earnmax
        earnsum == SumRange(SnP500AnnualData, Max({earnmin + 1, SnP500_FirstYear}),
                            Min({earnmax, SnP500_LastYear}))
        earnavg == <<earnsum, Len(rec)>>
        invested == InvestLoop(rec)
        snptotal == invested[2]
        lower == IF FractionLE(allavg, earnavg) THEN allavg ELSE earnavg
        lowrate == <<lower[1], 2 * lower[2]>>
        avgrate == IF FractionLE(allavg, earnavg) THEN earnavg ELSE allavg
        snp5yrlowtotal == FutureValue(5, RoundFraction(lowrate), RoundDiv(snptotal, 100))
        snp10yrlowtotal == FutureValue(5, RoundFraction(lowrate), snp5yrlowtotal)
        snp5yravgtotal == FutureValue(5, RoundFraction(avgrate), RoundDiv(snptotal, 100))
        snp10yravgtotal == FutureValue(5, RoundFraction(avgrate), snp5yravgtotal)
    IN  [SnP500LastYear |-> lastsnp,
         SnP500AllYears |-> Cardinality(DOMAIN SnP500AnnualData),
         SnP500AvgAll |-> RoundFraction(allavg),
         SnP500EarnYears |-> Len(rec),
         SnP500AvgEarnYears |-> RoundFraction(earnavg),
         SnP500EmployeeTaxed |-> RoundDiv(invested[1], 100),
         SnP500NowValue |-> RoundDiv(snptotal, 100),
         SnP500AnnuitizedNow |-> Annuitized(snptotal, 100),
         SnP500LowRate |-> RoundFraction(lowrate),
         SnP5005yrValueLow |-> snp5yrlowtotal,
         SnP500Annuitized5yrLow |-> Annuitized(snp5yrlowtotal, 1),
         SnP50010yrValueLow |-> snp10yrlowtotal,
         SnP500Annuitized10yrLow |-> Annuitized(snp10yrlowtotal, 1),
         SnP500AvgRate |-> RoundFraction(avgrate),
         SnP5005yrValueAvg |-> snp5yravgtotal,
         SnP500Annuitized5yrAvg |-> Annuitized(snp5yravgtotal, 1),
         SnP50010yrValueAvg |-> snp10yravgtotal,
         SnP500Annuitized10yrAvg |-> Annuitized(snp10yravgtotal, 1)]

(***************************************************************************)
(* Operations                                                              *)
(***************************************************************************)
\* get_results() that runs do_the_big_calculation_method on every call
GetResults_AlwaysCalculates ==
    LET needed == TRUE
        load == LoadXml(EarningsRecord, Soft_Fail, statement)
        rec == IF needed THEN load.record ELSE EarningsRecord
        error == IF needed THEN load.error ELSE XML_Statement_Error
        calc == BigCalculation(rec)
        filled == IF needed THEN Update(Results, calc.results) ELSE Results
    IN  IF needed /\ load.raised
        THEN /\ EarningsRecord' = load.record
             /\ XML_Statement_Error' = load.error
             /\ stderr' = stderr \o load.printed
             /\ outcome' = Raised("get_results", "ValueError", load.error)
             /\ AWI_Factors' = EmptyDict
             /\ AdjustedEarnings' = EmptyDict
             /\ UNCHANGED <<Soft_Fail, Results, statement>>
        ELSE
        /\ EarningsRecord' = rec
        /\ XML_Statement_Error' = error
        /\ stderr' = IF needed THEN stderr \o load.printed ELSE stderr
        /\ AWI_Factors' = IF needed THEN calc.factors ELSE AWI_Factors
        /\ AdjustedEarnings' = IF needed THEN calc.adjusted ELSE AdjustedEarnings
        /\ UNCHANGED <<Soft_Fail, statement>>
        /\ IF needed /\ calc.raised = "ValueError"
           THEN /\ Results' = Results
                /\ outcome' = Raised("get_results", "ValueError", EmptySequenceMessage)
           ELSE IF needed /\ calc.raised = "KeyError"
           THEN /\ Results' = Results
                /\ outcome' = Raised("get_results", "KeyError",
                                     ToString(KeyErrorYear(rec, calc.factors)))
           ELSE IF error # "None"
           THEN /\ Results' = filled
                /\ outcome' = Raised("get_results", "ValueError", error)
           ELSE IF rec = <<>>
           THEN /\ Results' = filled
                /\ outcome' = Raised("get_results", "ValueError", EmptySequenceMessage)
           ELSE /\ Results' = Update(filled, Snp500Fields(rec))
                /\ outcome' = Returned("get_results")

\* get_results(), with do_the_big_calculation_method, load_xml_statement and snp500
GetResults ==
    LET needed == DOMAIN Results = {}
        load == LoadXml(EarningsRecord, Soft_Fail, statement)
        rec == IF needed THEN load.record ELSE EarningsRecord
        error == IF needed THEN load.error ELSE XML_Statement_Error
        calc == BigCalculation(rec)
        filled == IF needed THEN Update(Results, calc.results) ELSE Results
    IN  IF needed /\ load.raised
        THEN /\ EarningsRecord' = load.record
             /\ XML_Statement_Error' = load.error
             /\ stderr' = stderr \o load.printed
             /\ outcome' = Raised("get_results", "ValueError", load.error)
             /\ AWI_Factors' = EmptyDict
             /\ AdjustedEarnings' = EmptyDict
             /\ UNCHANGED <<Soft_Fail, Results, statement>>
        ELSE
        /\ EarningsRecord' = rec
        /\ XML_Statement_Error' = error
        /\ stderr' = IF needed THEN stderr \o load.printed ELSE stderr
        /\ AWI_Factors' = IF needed THEN calc.factors ELSE AWI_Factors
        /\ AdjustedEarnings' = IF needed THEN calc.adjusted ELSE AdjustedEarnings
        /\ UNCHANGED <<Soft_Fail, statement>>
        /\ IF needed /\ calc.raised = "ValueError"
           THEN /\ Results' = Results
                /\ outcome' = Raised("get_results", "ValueError", EmptySequenceMessage)
           ELSE IF needed /\ calc.raised = "KeyError"
           THEN /\ Results' = Results
                /\ outcome' = Raised("get_results", "KeyError",
                                     ToString(KeyErrorYear(rec, calc.factors)))
           ELSE IF error # "None"
           THEN /\ Results' = filled
                /\ outcome' = Raised("get_results", "ValueError", error)
           ELSE IF rec = <<>>
           THEN /\ Results' = filled
                /\ outcome' = Raised("get_results", "ValueError", EmptySequenceMessage)
           ELSE /\ Results' = Update(filled, Snp500Fields(rec))
                /\ outcome' = Returned("get_results")

\* a direct load_xml_statement() call, as under --earnings
LoadXmlStatement ==
    LET load == LoadXml(EarningsRecord, Soft_Fail, statement)
    IN  /\ XML_Statement_Error' = load.error
        /\ EarningsRecord' = load.record
        /\ stderr' = stderr \o load.printed
        /\ outcome' = IF load.raised
                      THEN Raised("load_xml_statement", "ValueError", load.error)
                      ELSE Returned("load_xml_statement")
        /\ UNCHANGED <<Soft_Fail, Results, AWI_Factors, AdjustedEarnings, statement>>

\* Soft_Fail = True
SetSoftFail ==
    /\ ~Soft_Fail
    /\ Soft_Fail' = TRUE
    /\ UNCHANGED <<EarningsRecord, XML_Statement_Error, Results, AWI_Factors,
                   AdjustedEarnings, statement, stderr, outcome>>

\* EarningsRecord[y] = a, by the owner of the record
SetEarnings(y, a) ==
    /\ Len(EarningsRecord) <= MaxEdited
    /\ y \in Keys(EarningsRecord) \/ Len(EarningsRecord) < MaxEdited
    /\ EarningsRecord' = DictSet(EarningsRecord, y, a)
    /\ EarningsRecord' # EarningsRecord
    /\ UNCHANGED <<Soft_Fail, XML_Statement_Error, Results, AWI_Factors,
                   AdjustedEarnings, statement, stderr, outcome>>

EditEarnings == \E y \in EditYears, a \in EditAmounts : SetEarnings(y, a)

(***************************************************************************)
(* Specifications                                                          *)
(***************************************************************************)
InitState ==
    /\ EarningsRecord = <<>>
    /\ Soft_Fail = FALSE
    /\ XML_Statement_Error = "None"
    /\ Results = EmptyDict
    /\ AWI_Factors = EmptyDict
    /\ AdjustedEarnings = EmptyDict
    /\ stderr = <<>>
    /\ outcome = Returned("import")

\* the caller fills and edits the record between the calls
Init == InitState /\ statement \in ShortStatements
Next == GetResults \/ LoadXmlStatement \/ SetSoftFail \/ EditEarnings
Spec == Init /\ [][Next]_vars

\* the record comes from the statement file
InitStatement == InitState /\ statement \in LongStatements
NextStatement == GetResults \/ LoadXmlStatement \/ SetSoftFail
SpecStatement == InitStatement /\ [][NextStatement]_vars

(***************************************************************************)
(* Properties                                                              *)
(***************************************************************************)
BenefitFields ==
    {"Top35AdjustedEarnings", "MissingEarningYears", "TotalActualEarnings",
     "TotalAdjustedEarnings", "Top35YearsEarnings", "Top35YearsMinimum",
     "AverageIndexedMonthlyEarnings", "FirstBendPoint", "SecondBendPoint",
     "NormalBenefit", "ReducedBenefit", "IncreasedBenefit"}

\* a get_results call that runs do_the_big_calculation_method
Calculates == GetResults /\ DOMAIN Results = {}

\* the record is empty and the statement file cannot be read
NothingToLoad == EarningsRecord = <<>> /\ ~statement.readable

\* C1: in soft mode, with an empty record and an unreadable statement, get_results
\* puts the placeholder year 2022 with zero earnings into the record, prints a
\* warning and returns the results instead of raising.
C1_SoftModeReturnsResults ==
    [][(Soft_Fail /\ NothingToLoad /\ GetResults) =>
        /\ EarningsRecord' = <<<<2022, 0>>>>
        /\ stderr' = Append(stderr, NoEarningsMessage)
        /\ outcome' = Returned("get_results")]_vars

\* C2: in hard mode, with an empty record and an unreadable statement, get_results
\* raises an error that carries the description string, and the record and
\* Results stay empty.
C2_HardModeRaises ==
    [][(~Soft_Fail /\ NothingToLoad /\ GetResults) =>
        /\ outcome' = Raised("get_results", "ValueError", NoEarningsMessage)
        /\ EarningsRecord' = <<>>
        /\ DOMAIN Results' = {}]_vars

C2_Witness ==
    /\ outcome = Raised("get_results", "ValueError", NoEarningsMessage)
    /\ ~Soft_Fail
    /\ EarningsRecord = <<>>
    /\ DOMAIN Results = {}

\* C3: on every non-empty record (its years need not be contiguous and may start
\* before the wage-index series) the calculation ends without an error and
\* writes every benefit field into Results.
C3_CalculationIsTotal ==
    [][(Calculates /\ EarningsRecord' # <<>>) =>
        /\ outcome'.raised # "KeyError"
        /\ BenefitFields \subseteq DOMAIN Results']_vars

\* the schedule value in force in a year: the latest change at or before it,
\* 0 before the first change
ForwardFilledRate(year) ==
    IF year < Min(TaxChangeYears) THEN 0
    ELSE TaxChange(Max({c \in TaxChangeYears : c <= year}))

\* C4: the comparator taxes the earnings of every year of the record at the
\* forward-filled schedule rate, which is 0 before the schedule begins.
C4_ForwardFilledTaxRate ==
    [][(GetResults /\ outcome' = Returned("get_results")) =>
        \A k \in 1..Len(EarningsRecord') :
            LET year == EarningsRecord'[k][1]
                dollar == EarningsRecord'[k][2]
            IN  /\ TaxRateFor(year) = ForwardFilledRate(year)
                /\ TaxAmount(year, dollar) = (dollar * ForwardFilledRate(year)) \div 1000]_vars

\* the calculation has filled Results
Filled == BenefitFields \subseteq DOMAIN Results

\* a get_results call whose calculation fills Results
Fills == Calculates /\ BenefitFields \subseteq DOMAIN Results'

\* C5: every factor the calculation uses for a year of the record is at least
\* 1.0, and the adjusted earnings of the year are at least its earnings.
C5_AdjustedAtLeastRaw ==
    [][Calculates =>
        \A y \in DOMAIN AdjustedEarnings' :
            /\ AWI_Factors'[y] >= FactorUnit
            /\ AdjustedEarnings'[y] >= FactorUnit * Lookup(EarningsRecord', y)]_vars

C5_Witness ==
    /\ Filled
    /\ \E y \in DOMAIN AdjustedEarnings :
          AWI_Factors[y] > FactorUnit /\ AdjustedEarnings[y] > FactorUnit * 1000

\* C6, as claimed: of two years with a factor, the earlier has the larger or
\* the same factor.
C6_FactorsNeverIncrease ==
    \A y1, y2 \in DOMAIN AWI_Factors :
        y1 < y2 => AWI_Factors[y1] >= AWI_Factors[y2]

\* C6, amended: of two years with a factor, the earlier has the larger or the
\* same factor, except for 2008 and 2009: the wage index fell in 2009, and the
\* factor of 2008 is smaller than that of 2009.
C6_FactorsNeverIncreaseBut2009 ==
    /\ \A y1, y2 \in DOMAIN AWI_Factors :
          (y1 < y2 /\ <<y1, y2>> # <<2008, 2009>>) => AWI_Factors[y1] >= AWI_Factors[y2]
    /\ 2009 \in DOMAIN AWI_Factors => AWI_Factors[2008] < AWI_Factors[2009]

C6_Witness ==
    /\ Filled
    /\ {2008, 2009, NAWI_LastYear + 1} \subseteq DOMAIN AWI_Factors
    /\ AWI_Factors[NAWI_FirstYear] > AWI_Factors[NAWI_LastYear + 1]

\* the number of places of s that hold v
Count(s, v) == Cardinality({k \in 1..Len(s) : s[k] = v})

\* C7: the top set has min(35, entries of the record) values, they are the
\* largest adjusted earnings, and their sum, Top35YearsEarnings, is at most
\* TotalAdjustedEarnings.
C7_TopSetIsTheLargest ==
    [][Fills =>
        LET top == Results'.Top35AdjustedEarnings
            all == AdjustedValues(AdjustedEarnings')
        IN  /\ Len(top) = Min({35, Len(EarningsRecord')})
            /\ \A k \in 1..Len(top) : Count(top, top[k]) <= Count(all, top[k])
            /\ \A k \in 1..Len(all) :
                  Count(top, all[k]) < Count(all, all[k]) =>
                      \A j \in 1..Len(top) : all[k] <= top[j]
            /\ Results'.Top35YearsEarnings = SumSeq(top)
            /\ Results'.Top35YearsEarnings <= Results'.TotalAdjustedEarnings]_vars

C7_Witness ==
    /\ Filled
    /\ Len(EarningsRecord) > 35
    /\ Len(Results.Top35AdjustedEarnings) = 35
    /\ Results.Top35YearsEarnings < Results.TotalAdjustedEarnings

\* the years whose adjusted earnings are not among the selected: at least 35
\* other years have adjusted earnings as large
NotSelected(adjusted) ==
    {y \in DOMAIN adjusted :
        Cardinality({z \in DOMAIN adjusted \ {y} : adjusted[z] >= adjusted[y]}) >= 35}

\* C8: AIME is the top-35 sum divided by 420, and it stays the same when the
\* earnings of a year that is not among the selected are made smaller.
C8_AIMEIgnoresTheRest ==
    [][Fills =>
        /\ Results'.AverageIndexedMonthlyEarnings = Results'.Top35YearsEarnings \div 420
        /\ \A y \in NotSelected(AdjustedEarnings') :
              \A a \in {0, Lookup(EarningsRecord', y) \div 2, Lookup(EarningsRecord', y) - 1} :
                  (0 <= a /\ a < Lookup(EarningsRecord', y)) =>
                      BigCalculation(DictSet(EarningsRecord', y, a)).results.AverageIndexedMonthlyEarnings
                          = Results'.AverageIndexedMonthlyEarnings]_vars

C8_Witness ==
    /\ Filled
    /\ outcome = Returned("get_results")
    /\ Results.AverageIndexedMonthlyEarnings > 0
    /\ \E y \in NotSelected(AdjustedEarnings) : AdjustedEarnings[y] > 0

\* C9: the normal monthly benefit is the largest multiple of 0.10 that is not
\* above 0.9 AIME up to the first bend point, 0.9 firstBend + 0.32 (AIME -
\* firstBend) up to the second, and 0.9 firstBend + 0.32 (secondBend - firstBend)
\* + 0.15 (AIME - secondBend) above it; at each bend point the two branches that
\* meet there agree.  (AIME in cents, the formula in 1/10000 dollar, the benefit
\* in dimes.)
C9_PiecewiseBenefit ==
    Filled =>
        LET aime == Results.AverageIndexedMonthlyEarnings
            first == 100 * Results.FirstBendPoint
            second == 100 * Results.SecondBendPoint
            value == IF aime <= first THEN 90 * aime
                     ELSE IF aime <= second THEN 90 * first + 32 * (aime - first)
                     ELSE 90 * first + 32 * (second - first) + 15 * (aime - second)
        IN  /\ 1000 * Results.NormalBenefit <= value
            /\ value < 1000 * (Results.NormalBenefit + 1)
            /\ first < second
            /\ BelowFirstBend(first) = BetweenBends(first)
            /\ BetweenBends(second) = AboveSecondBend(second)
            /\ aime = first => NormalMonthlyBenefitOf(aime) = FloorToDime(BetweenBends(aime))
            /\ aime = second => NormalMonthlyBenefitOf(aime) = FloorToDime(AboveSecondBend(aime))

C9_Witness ==
    /\ Filled
    /\ Results.AverageIndexedMonthlyEarnings = 100 * Results.SecondBendPoint
    /\ Results.NormalBenefit = 27974

\* the items of a record in ascending order of the year
ByYear(rec) ==
    [r \in 1..Len(rec) |->
        rec[CHOOSE k \in 1..Len(rec) :
                Cardinality({j \in 1..Len(rec) : rec[j][1] < rec[k][1]}) = r - 1]]

\* C10: the comparator handles the years in ascending order whatever the order
\* of insertion, so that the simulated value is that of the record sorted by year.
C10_ChronologicalOrder ==
    [][(GetResults /\ outcome' = Returned("get_results")) =>
        Results'.SnP500NowValue = RoundDiv(InvestLoop(ByYear(EarningsRecord'))[2], 100)]_vars

\* the years with a published return from the first through the last year of rec
OverlapYears(rec) ==
    {y \in DOMAIN SnP500AnnualData : Min(Keys(rec)) <= y /\ y <= Max(Keys(rec))}

\* the mean of the published returns over a non-empty set of years, rounded as
\* round(x, 2) in hundredths of a percent
MeanReturn(years) ==
    RoundDiv(SumRange([y \in Min(years)..Max(years) |->
                          IF y \in years THEN SnP500AnnualData[y] ELSE 0],
                      Min(years), Max(years)),
             Cardinality(years))

\* C11: the earnings-period average is the mean of the published annual returns
\* over the years from the first through the last year of the record, both
\* included; for a record of one year it is the return of that year.
C11_EarningsPeriodAverage ==
    [][(GetResults /\ outcome' = Returned("get_results")
            /\ OverlapYears(EarningsRecord') # {}) =>
        /\ Results'.SnP500AvgEarnYears = MeanReturn(OverlapYears(EarningsRecord'))
        /\ Len(EarningsRecord') = 1 =>
               Results'.SnP500AvgEarnYears = SnP500AnnualData[EarningsRecord'[1][1]]]_vars

\* C12: when the record ends at or after the last year of the wage index, the
\* last indexed year and every later year up to the end of the record have the
\* factor 1.0 and adjusted earnings equal to the earnings, and every earlier
\* indexed year y has the factor 1 + (index(last) - index(y)) / index(y), that
\* is index(last) / index(y), here cut to hundredths.
C12_PaddedYearsKeepEarnings ==
    [][(Calculates /\ EarningsRecord' # <<>>
            /\ Max(Keys(EarningsRecord')) >= NAWI_LastYear) =>
        LET last == Max(Keys(EarningsRecord'))
        IN  /\ DOMAIN AWI_Factors' = NAWI_FirstYear..last
            /\ \A y \in NAWI_LastYear..last :
                  /\ AWI_Factors'[y] = FactorUnit
                  /\ y \in DOMAIN AdjustedEarnings' =>
                         AdjustedEarnings'[y] = FactorUnit * Lookup(EarningsRecord', y)
            /\ \A y \in NAWI_FirstYear..(NAWI_LastYear - 1) :
                  /\ AWI_Factors'[y] * NationalAverageWageIndexSeries[y]
                        <= FactorUnit * LatestIndex
                  /\ FactorUnit * LatestIndex
                        < (AWI_Factors'[y] + 1) * NationalAverageWageIndexSeries[y]]_vars

C12_Witness ==
    /\ Filled
    /\ EarningsRecord # <<>>
    /\ Min(Keys(EarningsRecord)) < NAWI_LastYear
    /\ Max(Keys(EarningsRecord)) = NAWI_LastYear
    /\ AdjustedEarnings[NAWI_LastYear] = FactorUnit * Lookup(EarningsRecord, NAWI_LastYear)
    /\ AdjustedEarnings[NAWI_LastYear] > 0
    /\ AdjustedEarnings[NAWI_LastYear - 1] >
           FactorUnit * Lookup(EarningsRecord, NAWI_LastYear - 1)

\* 1.08 = 27/25 multiplied k times, as numerator and denominator
RECURSIVE Power(_, _)
Power(b, k) == IF k = 0 THEN 1 ELSE b * Power(b, k - 1)

InvestmentFields == DOMAIN Snp500Fields(<<<<2000, 0>>>>)

\* an earlier get_results call has returned: Results holds the fields of both
\* do_the_big_calculation_method and snp500
Returned_Before == BenefitFields \cup InvestmentFields \subseteq DOMAIN Results

====
